---- MODULE Spec2Model ----
(***************************************************************************)
(* Model of the bridge-and-swap script: executeSwap (src/src/index.ts) and *)
(* the calldata generators (utils/transactions).                           *)
(*                                                                         *)
(* Addresses and calldata are byte sequences (one integer 0..255 per       *)
(* byte).  Token amounts are counted in units of 10^-3 WETH, so that the   *)
(* 0.003 WETH input amount is the integer 3.                               *)
(* An absent value is the empty sequence, a present value x is <<x>>.      *)
(***************************************************************************)
EXTENDS Integers, Sequences, FiniteSets, TLC

VARIABLES
    env,                 \* process.env: which of PRIVATE_KEY, RPC_URL are set
    pc,                  \* position of executeSwap
    calls,               \* external calls issued so far, in order
    inflight,            \* calls issued and not yet settled
    returned,            \* calls of executeSwap's body that returned successfully, in order
    log,                 \* logger calls so far, in order
    balance,             \* value returned by getBalance
    initialQuote,        \* {to, data} returned by the initial generateSwapCallData
    swapContractAddress, \* const swapContractAddress (index.ts:89)
    initialCalldata,     \* const initialCalldata (index.ts:89)
    crossChainMessage,   \* const crossChainMessage (index.ts:100)
    raised,              \* the error raised in the run
    thrown,              \* the error executeSwap's promise is rejected with
    updReq,              \* sell amount of the swap action's update awaiting its quote
    lastUpdate,          \* the last update invocation and what it gave
    nUpdates,            \* number of update invocations so far
    lastQuote,           \* the last response handled by generateSwapCallData and its outcome
    lastEvent,           \* the last progress event handled by onProgress
    lastOut,             \* the logger calls onProgress made for lastEvent
    nEvents,             \* number of progress events handled
    handled,             \* the (event, logger calls) pairs of the events handled so far
    fnArgs,              \* ApproveSpec: the (spender, amount) pair under test
    fnOut                \* ApproveSpec: the calldata produced for fnArgs

vars == <<env, pc, calls, inflight, returned, log, balance, initialQuote,
          swapContractAddress, initialCalldata, crossChainMessage, raised, thrown,
          updReq, lastUpdate, nUpdates, lastQuote, lastEvent, lastOut, nEvents,
          handled, fnArgs, fnOut>>

None == <<>>

Some(x) == <<x>>

----------------------------------------------------------------------------
(* Bounds of the model *)

\* largest balance getBalance returns
MaxBalance == 4

\* largest outputAmount the bridging client passes to an update
MaxOutputAmount == 2

\* most update invocations the bridging client makes in a run
MaxUpdates == 2

\* most progress events the bridging client reports in a run
MaxEvents == 2

\* largest amount given to generateApproveCallData in ApproveSpec
MaxApproveAmount == 300

----------------------------------------------------------------------------
(* Values *)

Repeat(b, n) == [i \in 1..n |-> b]

\* 0xAAAA...AA and 0xBBBB...BB: swap contracts the quoting service may name
AddrA == Repeat(170, 20)

AddrB == Repeat(187, 20)

\* the account createUserWallet derives from PRIVATE_KEY
UserAddress == Repeat(17, 20)

\* route.outputToken 0x4200000000000000000000000000000000000006
outputToken == <<66>> \o Repeat(0, 18) \o <<6>>

SwapContracts == {AddrA, AddrB}

Address == SwapContracts \cup {UserAddress, outputToken}

\* calldata the quoting service may return: 0x01, 0x02
SwapCallData == {<<1>>, <<2>>}

\* inputAmount = parseUnits("0.003", 18)
inputAmount == 3

Balances == 0..MaxBalance

OutputAmounts == 1..MaxOutputAmount

\* formatUnits(value, WETH_DECIMALS): the decimal text, as whole part and thousandths
formatUnits(value) == <<value \div 1000, ".", value % 1000>>

Error(message) == [message |-> message]

\* a rejection of an external collaborator (wallet, RPC, HTTP, bridging client)
ExternalError(op) == [message |-> <<op, " failed">>, external |-> TRUE]

----------------------------------------------------------------------------
(* Calldata generators *)

\* first 4 bytes of keccak256("approve(address,uint256)") = 0x095ea7b3
ApproveSelector == <<9, 94, 167, 179>>

\* big-endian bytes of n, left-padded with zeros to size bytes
RECURSIVE NumToBytes(_, _)
NumToBytes(n, size) ==
    IF size = 0 THEN <<>>
    ELSE Append(NumToBytes(n \div 256, size - 1), n % 256)

\* ABI head word of an address: 12 zero bytes, then its 20 bytes
EncodeAddress(a) == Repeat(0, 12) \o a

\* ABI head word of a uint256
EncodeUint256(n) == NumToBytes(n, 32)

generateApproveCallDataSwapped(spender, amount) ==
    ApproveSelector \o EncodeUint256(amount) \o EncodeAddress(spender)

generateApproveCallData(spender, amount) ==
    ApproveSelector \o EncodeAddress(spender) \o EncodeUint256(amount)

\* responses of the quoting endpoint: {error?: string, tx: {to, data}}
Tx == [to : SwapContracts, data : SwapCallData]

RemoteErrors == {"", "InsufficientLiquidity"}

QuoteResponses == [tx : Tx] \cup [error : RemoteErrors, tx : Tx]

\* outcomes of axios.get: the response body, or a rejection
HttpOutcomes == [data : QuoteResponses] \cup {[rejected |-> ExternalError("axios.get")]}

Ok(v) == [ok |-> TRUE, value |-> v]

Throw(e) == [ok |-> FALSE, error |-> e]

generateSwapCallDataTruthy(http) ==
    IF "rejected" \in DOMAIN http THEN Throw(http.rejected)
    ELSE LET quote == http.data IN
         IF "error" \in DOMAIN quote /\ quote.error # ""
         THEN Throw(Error(<<quote.error>>))
         ELSE Ok([to |-> quote.tx.to, data |-> quote.tx.data])

\* generateSwapCallData, from the outcome of its HTTP request on
generateSwapCallData(http) ==
    IF "rejected" \in DOMAIN http THEN Throw(http.rejected)
    ELSE LET quote == http.data IN
         IF "error" \in DOMAIN quote
         THEN Throw(Error(<<quote.error>>))
         ELSE Ok([to |-> quote.tx.to, data |-> quote.tx.data])

----------------------------------------------------------------------------
(* Logger and helpers (utils/logger, utils/helpers) *)

LogStep(l, m) == Append(l, [level |-> "step", msg |-> m])

LogSuccess(l, m) == Append(l, [level |-> "success", msg |-> m])

LogJson(l, m) == Append(l, [level |-> "json", msg |-> m])

LogError(l, m, e) == Append(l, [level |-> "error", msg |-> m, error |-> e])

\* block explorers of the two chains (viem/chains)
Explorer(chain) ==
    IF chain = "arbitrum" THEN "https://arbiscan.io" ELSE "https://basescan.org"

\* `${explorerBaseUrl}/tx/${hash}`
createTransactionUrl(chain, hash) == <<Explorer(chain), "/tx/", hash>>

----------------------------------------------------------------------------
(* executeSwap *)

Call(op, by) == [op |-> op, by |-> by]

\* if (!process.env.PRIVATE_KEY || !process.env.RPC_URL)
ConfigMissing(e) == ~e.PRIVATE_KEY \/ ~e.RPC_URL

MissingConfigError == Error(<<"PRIVATE_KEY or RPC_URL is not set">>)

\* a throw that no try block encloses: the promise is rejected with e
ThrowOutsideTry(l, e) ==
    /\ log' = l
    /\ raised' = Some(e)
    /\ thrown' = Some(e)
    /\ pc' = "failed"

CatchSwallow(l, e) ==
    /\ log' = LogError(l, <<"Failed to execute swap">>, e)
    /\ raised' = Some(e)
    /\ thrown' = None
    /\ pc' = "done"

\* e is thrown inside the try block: catch (error) { logger.error(...); throw error; }
Catch(l, e) ==
    /\ log' = LogError(l, <<"Failed to execute swap">>, e)
    /\ raised' = Some(e)
    /\ thrown' = Some(e)
    /\ pc' = "failed"

StartMissingConfigInsideTry ==
    /\ pc = "start"
    /\ ConfigMissing(env)
    /\ Catch(LogStep(log, <<"Initializing clients">>), MissingConfigError)
    /\ UNCHANGED <<env, calls, inflight, returned, balance, initialQuote,
                   swapContractAddress, initialCalldata, crossChainMessage, updReq,
                   lastUpdate, nUpdates, lastQuote, lastEvent, lastOut, nEvents, handled,
                   fnArgs, fnOut>>

\* executeSwap is called with PRIVATE_KEY or RPC_URL unset
StartMissingConfig ==
    /\ pc = "start"
    /\ ConfigMissing(env)
    /\ ThrowOutsideTry(log, MissingConfigError)
    /\ UNCHANGED <<env, calls, inflight, returned, balance, initialQuote,
                   swapContractAddress, initialCalldata, crossChainMessage, updReq,
                   lastUpdate, nUpdates, lastQuote, lastEvent, lastOut, nEvents, handled,
                   fnArgs, fnOut>>

\* createUserWallet throws (a malformed key, say)
StartWalletFails ==
    /\ pc = "start"
    /\ ~ConfigMissing(env)
    /\ calls' = Append(calls, Call("createUserWallet", "body"))
    /\ Catch(LogStep(log, <<"Initializing clients">>), ExternalError("createUserWallet"))
    /\ UNCHANGED <<env, inflight, returned, balance, initialQuote,
                   swapContractAddress, initialCalldata, crossChainMessage, updReq,
                   lastUpdate, nUpdates, lastQuote, lastEvent, lastOut, nEvents, handled,
                   fnArgs, fnOut>>

StartNoAwait ==
    /\ pc = "start"
    /\ ~ConfigMissing(env)
    /\ calls' = calls \o <<Call("createUserWallet", "body"), Call("getBalance", "body"),
                           Call("createAcrossClient", "body"),
                           Call("generateSwapCallData", "body")>>
    /\ inflight' = inflight \cup {Call("getBalance", "body"),
                                  Call("generateSwapCallData", "body")}
    /\ log' = LogStep(log, <<"Initializing clients">>)
    /\ pc' = "swapQuote"
    /\ UNCHANGED <<env, returned, balance, initialQuote, swapContractAddress,
                   initialCalldata, crossChainMessage, raised, thrown, updReq,
                   lastUpdate, nUpdates, lastQuote, lastEvent, lastOut, nEvents, handled,
                   fnArgs, fnOut>>

\* the wallet client is created and the balance query is issued and awaited
StartOk ==
    /\ pc = "start"
    /\ ~ConfigMissing(env)
    /\ calls' = calls \o <<Call("createUserWallet", "body"), Call("getBalance", "body")>>
    /\ inflight' = inflight \cup {Call("getBalance", "body")}
    /\ log' = LogStep(log, <<"Initializing clients">>)
    /\ pc' = "getBalance"
    /\ UNCHANGED <<env, returned, balance, initialQuote, swapContractAddress,
                   initialCalldata, crossChainMessage, raised, thrown, updReq,
                   lastUpdate, nUpdates, lastQuote, lastEvent, lastOut, nEvents, handled,
                   fnArgs, fnOut>>

\* getBalance rejects
BalanceFails ==
    /\ pc = "getBalance"
    /\ inflight' = inflight \ {Call("getBalance", "body")}
    /\ Catch(log, ExternalError("getBalance"))
    /\ UNCHANGED <<env, calls, returned, balance, initialQuote, swapContractAddress,
                   initialCalldata, crossChainMessage, updReq, lastUpdate, nUpdates,
                   lastQuote, lastEvent, lastOut, nEvents, handled, fnArgs, fnOut>>

InsufficientBalanceNonPositive(b) == b <= 0

\* if (balance < inputAmount)
InsufficientBalance(b) == b < inputAmount

InsufficientBalanceError(b) ==
    Error(<<"Insufficient balance. Required: ", formatUnits(inputAmount),
            ", Available: ", formatUnits(b)>>)

\* getBalance returns b: the balance gate, then the initial swap quote is requested
BalanceReturn(b) ==
    /\ pc = "getBalance"
    /\ balance' = Some(b)
    /\ returned' = Append(returned, "getBalance")
    /\ IF InsufficientBalance(b)
       THEN /\ inflight' = inflight \ {Call("getBalance", "body")}
            /\ Catch(log, InsufficientBalanceError(b))
            /\ calls' = calls
       ELSE /\ log' = LogSuccess(
                        LogSuccess(log, <<"Balance check passed. Available: ",
                                          formatUnits(b)>>),
                        <<"Clients initialized successfully">>)
            /\ calls' = calls \o <<Call("createAcrossClient", "body"),
                                   Call("generateSwapCallData", "body")>>
            /\ inflight' = (inflight \ {Call("getBalance", "body")})
                             \cup {Call("generateSwapCallData", "body")}
            /\ pc' = "swapQuote"
            /\ UNCHANGED <<raised, thrown>>
    /\ UNCHANGED <<env, initialQuote, swapContractAddress, initialCalldata,
                   crossChainMessage, updReq, lastUpdate, nUpdates, lastQuote,
                   lastEvent, lastOut, nEvents, handled, fnArgs, fnOut>>

----------------------------------------------------------------------------
(* The cross-chain message and its update closures *)

crossChainMessageSpenderUser(swapAddress, calldata, userAddress) ==
    [actions |-> <<
        [target |-> outputToken,
         callData |-> generateApproveCallData(userAddress, inputAmount),
         value |-> 0],
        [target |-> swapAddress, callData |-> calldata, value |-> 0]>>,
     fallbackRecipient |-> userAddress]

\* the object literal of index.ts:100, without its update closures
crossChainMessageOf(swapAddress, calldata, userAddress) ==
    [actions |-> <<
        [target |-> outputToken,
         callData |-> generateApproveCallData(swapAddress, inputAmount),
         value |-> 0],
        [target |-> swapAddress, callData |-> calldata, value |-> 0]>>,
     fallbackRecipient |-> userAddress]

\* actions[0].update
ApproveUpdate(updatedOutputAmount) ==
    [callData |-> generateApproveCallData(swapContractAddress[1], updatedOutputAmount)]

SwapUpdateStale(quoted) ==
    IF ~quoted.ok THEN quoted
    ELSE IF swapContractAddress[1] # quoted.value.to
         THEN Throw(Error(<<"Swap contract address mismatch">>))
         ELSE Ok([callData |-> initialCalldata[1]])

SwapUpdateUnguarded(quoted) ==
    IF ~quoted.ok THEN quoted
    ELSE Ok([callData |-> quoted.value.data])

\* actions[1].update, from the outcome of its generateSwapCallData call on
SwapUpdate(quoted) ==
    IF ~quoted.ok THEN quoted
    ELSE IF swapContractAddress[1] # quoted.value.to
         THEN Throw(Error(<<"Swap contract address mismatch">>))
         ELSE Ok([callData |-> quoted.value.data])

\* the initial generateSwapCallData settles; the message is built and getQuote called
SwapQuoteReturn(http) ==
    LET quoted == generateSwapCallData(http) IN
    /\ pc = "swapQuote"
    /\ lastQuote' = Some([http |-> http, result |-> quoted])
    /\ IF ~quoted.ok
       THEN /\ inflight' = inflight \ {Call("generateSwapCallData", "body")}
            /\ Catch(log, quoted.error)
            /\ UNCHANGED <<calls, returned, initialQuote, swapContractAddress,
                           initialCalldata, crossChainMessage>>
       ELSE /\ returned' = Append(returned, "generateSwapCallData")
            /\ initialQuote' = Some(quoted.value)
            /\ swapContractAddress' = Some(quoted.value.to)
            /\ initialCalldata' = Some(quoted.value.data)
            /\ crossChainMessage' =
                 Some(crossChainMessageOf(quoted.value.to, quoted.value.data, UserAddress))
            /\ log' = LogStep(log, <<"Fetching quote">>)
            /\ calls' = Append(calls, Call("getQuote", "body"))
            /\ inflight' = (inflight \ {Call("generateSwapCallData", "body")})
                             \cup {Call("getQuote", "body")}
            /\ pc' = "getQuote"
            /\ UNCHANGED <<raised, thrown>>
    /\ UNCHANGED <<env, balance, updReq, lastUpdate, nUpdates, lastEvent, lastOut,
                   nEvents, handled, fnArgs, fnOut>>

\* the bridging client, inside getQuote, invokes the approve action's update
UpdateApprove(amount) ==
    /\ pc = "getQuote"
    /\ nUpdates < MaxUpdates
    /\ nUpdates' = nUpdates + 1
    /\ lastUpdate' = Some([action |-> 1, amount |-> amount,
                           result |-> Ok(ApproveUpdate(amount))])
    /\ UNCHANGED <<env, pc, calls, inflight, returned, log, balance, initialQuote,
                   swapContractAddress, initialCalldata, crossChainMessage, raised,
                   thrown, updReq, lastQuote, lastEvent, lastOut, nEvents, handled, fnArgs,
                   fnOut>>

\* the bridging client invokes the swap action's update, which requests a fresh quote
UpdateSwapCall(amount) ==
    /\ pc = "getQuote"
    /\ updReq = None
    /\ nUpdates < MaxUpdates
    /\ nUpdates' = nUpdates + 1
    /\ updReq' = Some(amount)
    /\ calls' = Append(calls, Call("generateSwapCallData", "update"))
    /\ inflight' = inflight \cup {Call("generateSwapCallData", "update")}
    /\ UNCHANGED <<env, pc, returned, log, balance, initialQuote, swapContractAddress,
                   initialCalldata, crossChainMessage, raised, thrown, lastUpdate,
                   lastQuote, lastEvent, lastOut, nEvents, handled, fnArgs, fnOut>>

\* the fresh quote settles and the update returns or throws; a throw rejects getQuote
UpdateSwapReturn(http) ==
    LET quoted == generateSwapCallData(http)
        result == SwapUpdate(quoted)
    IN
    /\ pc = "getQuote"
    /\ updReq # None
    /\ updReq' = None
    /\ lastQuote' = Some([http |-> http, result |-> quoted])
    /\ lastUpdate' = Some([action |-> 2, amount |-> updReq[1], http |-> http,
                           quoted |-> quoted, result |-> result])
    /\ IF ~result.ok
       THEN /\ inflight' = {}
            /\ Catch(log, result.error)
       ELSE /\ inflight' = inflight \ {Call("generateSwapCallData", "update")}
            /\ UNCHANGED <<pc, log, raised, thrown>>
    /\ UNCHANGED <<env, calls, returned, balance, initialQuote, swapContractAddress,
                   initialCalldata, crossChainMessage, nUpdates, lastEvent, lastOut,
                   nEvents, handled, fnArgs, fnOut>>

\* getQuote rejects for a reason of the bridging client's own
GetQuoteFails ==
    /\ pc = "getQuote"
    /\ updReq = None
    /\ inflight' = inflight \ {Call("getQuote", "body")}
    /\ Catch(log, ExternalError("getQuote"))
    /\ UNCHANGED <<env, calls, returned, balance, initialQuote, swapContractAddress,
                   initialCalldata, crossChainMessage, updReq, lastUpdate, nUpdates,
                   lastQuote, lastEvent, lastOut, nEvents, handled, fnArgs, fnOut>>

\* getQuote returns; the quote is logged and executeQuote is called
GetQuoteReturn ==
    /\ pc = "getQuote"
    /\ updReq = None
    /\ returned' = Append(returned, "getQuote")
    /\ log' = LogStep(LogJson(log, <<"Quote parameters">>), <<"Executing transactions">>)
    /\ calls' = Append(calls, Call("executeQuote", "body"))
    /\ inflight' = (inflight \ {Call("getQuote", "body")})
                     \cup {Call("executeQuote", "body")}
    /\ pc' = "executeQuote"
    /\ UNCHANGED <<env, balance, initialQuote, swapContractAddress, initialCalldata,
                   crossChainMessage, raised, thrown, updReq, lastUpdate, nUpdates,
                   lastQuote, lastEvent, lastOut, nEvents, handled, fnArgs, fnOut>>

----------------------------------------------------------------------------
(* Progress events *)

Steps == {"approve", "deposit", "fill"}

Receipts == {[transactionHash |-> "0xh1"]}

ProgressEvents ==
    [step : {"approve"}, status : {"txSuccess"}, txReceipt : Receipts]
    \cup [step : {"deposit"}, status : {"txSuccess"}, txReceipt : Receipts,
          depositId : {7}]
    \cup [step : {"fill"}, status : {"txSuccess"}, txReceipt : Receipts,
          actionSuccess : BOOLEAN]
    \cup [step : Steps, status : {"txPending"}]

onProgressAnyStatus(progress) ==
    IF progress.step = "approve"
    THEN LogSuccess(<<>>, <<"Approve TX: ">>)
    ELSE <<>>

\* the onProgress callback: the logger calls it makes for one event
onProgress(progress) ==
    LET approve ==
            IF progress.step = "approve" /\ progress.status = "txSuccess"
            THEN LogSuccess(<<>>, <<"Approve TX: ",
                     createTransactionUrl("arbitrum", progress.txReceipt.transactionHash)>>)
            ELSE <<>>
        deposit ==
            IF progress.step = "deposit" /\ progress.status = "txSuccess"
            THEN LogSuccess(
                   LogSuccess(<<>>, <<"Deposit TX: ",
                     createTransactionUrl("arbitrum", progress.txReceipt.transactionHash)>>),
                   <<"Deposit ID: ", progress.depositId>>)
            ELSE <<>>
        fill ==
            IF progress.step = "fill" /\ progress.status = "txSuccess"
            THEN LogSuccess(
                   LogSuccess(<<>>, <<"Fill TX: ",
                     createTransactionUrl("base", progress.txReceipt.transactionHash)>>),
                   <<IF progress.actionSuccess THEN "Swap completed successfully"
                                               ELSE "Swap failed">>)
            ELSE <<>>
    IN approve \o deposit \o fill

\* the bridging client, inside executeQuote, reports one progress event
Progress(progress) ==
    /\ pc = "executeQuote"
    /\ nEvents < MaxEvents
    /\ nEvents' = nEvents + 1
    /\ lastEvent' = Some(progress)
    /\ lastOut' = onProgress(progress)
    /\ handled' = handled \cup {<<progress, onProgress(progress)>>}
    /\ log' = log \o onProgress(progress)
    /\ UNCHANGED <<env, pc, calls, inflight, returned, balance, initialQuote,
                   swapContractAddress, initialCalldata, crossChainMessage, raised,
                   thrown, updReq, lastUpdate, nUpdates, lastQuote, fnArgs, fnOut>>

\* executeQuote rejects
ExecuteQuoteFails ==
    /\ pc = "executeQuote"
    /\ inflight' = inflight \ {Call("executeQuote", "body")}
    /\ Catch(log, ExternalError("executeQuote"))
    /\ UNCHANGED <<env, calls, returned, balance, initialQuote, swapContractAddress,
                   initialCalldata, crossChainMessage, updReq, lastUpdate, nUpdates,
                   lastQuote, lastEvent, lastOut, nEvents, handled, fnArgs, fnOut>>

\* executeQuote returns and executeSwap completes
ExecuteQuoteReturn ==
    /\ pc = "executeQuote"
    /\ returned' = Append(returned, "executeQuote")
    /\ inflight' = inflight \ {Call("executeQuote", "body")}
    /\ log' = LogStep(log, <<"Bridge transaction completed">>)
    /\ pc' = "done"
    /\ UNCHANGED <<env, calls, balance, initialQuote, swapContractAddress,
                   initialCalldata, crossChainMessage, raised, thrown, updReq,
                   lastUpdate, nUpdates, lastQuote, lastEvent, lastOut, nEvents, handled,
                   fnArgs, fnOut>>

----------------------------------------------------------------------------
(* Specifications *)

Init ==
    /\ env \in [PRIVATE_KEY : BOOLEAN, RPC_URL : BOOLEAN]
    /\ pc = "start"
    /\ calls = <<>>
    /\ inflight = {}
    /\ returned = <<>>
    /\ log = <<>>
    /\ balance = None
    /\ initialQuote = None
    /\ swapContractAddress = None
    /\ initialCalldata = None
    /\ crossChainMessage = None
    /\ raised = None
    /\ thrown = None
    /\ updReq = None
    /\ lastUpdate = None
    /\ nUpdates = 0
    /\ lastQuote = None
    /\ lastEvent = None
    /\ lastOut = <<>>
    /\ nEvents = 0
    /\ handled = {}
    /\ fnArgs = None
    /\ fnOut = None

Next ==
    \/ StartMissingConfig
    \/ StartWalletFails
    \/ StartOk
    \/ BalanceFails
    \/ \E b \in Balances : BalanceReturn(b)
    \/ \E http \in HttpOutcomes : SwapQuoteReturn(http)
    \/ \E amount \in OutputAmounts : UpdateApprove(amount)
    \/ \E amount \in OutputAmounts : UpdateSwapCall(amount)
    \/ \E http \in HttpOutcomes : UpdateSwapReturn(http)
    \/ GetQuoteFails
    \/ GetQuoteReturn
    \/ \E progress \in ProgressEvents : Progress(progress)
    \/ ExecuteQuoteFails
    \/ ExecuteQuoteReturn

Spec == Init /\ [][Next]_vars

\* generateApproveCallData applied to one (spender, amount) pair
ApproveInit ==
    /\ env = [PRIVATE_KEY |-> TRUE, RPC_URL |-> TRUE]
    /\ pc = "start"
    /\ calls = <<>>
    /\ inflight = {}
    /\ returned = <<>>
    /\ log = <<>>
    /\ balance = None
    /\ initialQuote = None
    /\ swapContractAddress = None
    /\ initialCalldata = None
    /\ crossChainMessage = None
    /\ raised = None
    /\ thrown = None
    /\ updReq = None
    /\ lastUpdate = None
    /\ nUpdates = 0
    /\ lastQuote = None
    /\ lastEvent = None
    /\ lastOut = <<>>
    /\ nEvents = 0
    /\ handled = {}
    /\ fnArgs \in Address \X (0..MaxApproveAmount)
    /\ fnOut = None

ApplyApprove ==
    /\ fnOut = None
    /\ fnOut' = Some(generateApproveCallData(fnArgs[1], fnArgs[2]))
    /\ UNCHANGED <<env, pc, calls, inflight, returned, log, balance, initialQuote,
                   swapContractAddress, initialCalldata, crossChainMessage, raised,
                   thrown, updReq, lastUpdate, nUpdates, lastQuote, lastEvent, lastOut,
                   nEvents, handled, fnArgs>>

ApproveNext == ApplyApprove

ApproveSpec == ApproveInit /\ [][ApproveNext]_vars

----------------------------------------------------------------------------
(* Properties *)

Ops(cs) == [i \in 1..Len(cs) |-> cs[i].op]

IsBody(c) == c.by = "body"

IsPrefix(p, q) == Len(p) <= Len(q) /\ SubSeq(q, 1, Len(p)) = p

Issued(op) == \E i \in 1..Len(calls) : calls[i].op = op

IsErrorEntry(entry) == entry.level = "error"

ErrorEntries == SelectSeq(log, IsErrorEntry)

MismatchError == Error(<<"Swap contract address mismatch">>)

RECURSIVE BytesToNum(_)
BytesToNum(bytes) ==
    IF bytes = <<>> THEN 0
    ELSE 256 * BytesToNum(SubSeq(bytes, 1, Len(bytes) - 1)) + bytes[Len(bytes)]

\* the value of a uint256 word; -1 for a value of 2^24 or more, beyond the model's amounts
DecodeUint256(word) ==
    IF SubSeq(word, 1, 29) = Repeat(0, 29) THEN BytesToNum(SubSeq(word, 30, 32)) ELSE -1

\* the (spender, amount) an approve(address,uint256) call carries
DecodeApprove(cd) == <<SubSeq(cd, 17, 36), DecodeUint256(SubSeq(cd, 37, 68))>>

WellFormedApprove(cd) ==
    /\ Len(cd) = 68
    /\ SubSeq(cd, 1, 4) = ApproveSelector
    /\ SubSeq(cd, 5, 16) = Repeat(0, 12)

\* C1: once getBalance has returned less than inputAmount, the run has failed with the
\* insufficient-balance error, and no swap quote, getQuote or executeQuote was issued.
C1_InsufficientBalanceStops ==
    (balance # None /\ balance[1] < inputAmount) =>
        /\ pc = "failed"
        /\ thrown # None
        /\ thrown[1].message[1] = "Insufficient balance. Required: "
        /\ ~Issued("generateSwapCallData")
        /\ ~Issued("getQuote")
        /\ ~Issued("executeQuote")
        /\ inflight = {}

C1_Witness ==
    /\ balance # None
    /\ balance[1] < inputAmount
    /\ balance[1] > 0
    /\ pc = "failed"

\* C2: with PRIVATE_KEY or RPC_URL unset the run is at its start or has failed with the
\* missing-configuration error, and nothing was called: no wallet, no balance query, no
\* quote, no bridge call, no logger call.
C2_MissingConfigFailsFirst ==
    (~env.PRIVATE_KEY \/ ~env.RPC_URL) =>
        /\ pc \in {"start", "failed"}
        /\ calls = <<>>
        /\ inflight = {}
        /\ log = <<>>
        /\ balance = None
        /\ pc = "failed" => thrown = Some(MissingConfigError)

C2_Witness ==
    /\ env.PRIVATE_KEY
    /\ ~env.RPC_URL
    /\ pc = "failed"

\* C3: a swap update whose fresh quote names another contract than the initial quote
\* fails with the contract-mismatch error and returns no calldata, and a swap update
\* fails with that error only when its fresh quote names another contract.
C3_MismatchIffContractDiffers ==
    (lastUpdate # None /\ lastUpdate[1].action = 2) =>
        LET u == lastUpdate[1] IN
        /\ (u.quoted.ok /\ u.quoted.value.to # initialQuote[1].to) =>
              /\ ~u.result.ok
              /\ u.result.error = MismatchError
              /\ "value" \notin DOMAIN u.result
        /\ (~u.result.ok /\ u.result.error = MismatchError) =>
              /\ u.quoted.ok
              /\ u.quoted.value.to # initialQuote[1].to

C3_Witness ==
    /\ lastUpdate # None
    /\ lastUpdate[1].action = 2
    /\ lastUpdate[1].quoted.ok
    /\ lastUpdate[1].quoted.value.to # initialQuote[1].to
    /\ pc = "failed"

\* C4 as stated: generateSwapCallData fails with the remote message if the response has
\* a non-empty error field, and otherwise returns the to and data of the tx field.
C4_Original ==
    (lastQuote # None /\ "data" \in DOMAIN lastQuote[1].http) =>
        LET quote == lastQuote[1].http.data
            result == lastQuote[1].result
        IN IF "error" \in DOMAIN quote /\ quote.error # ""
           THEN ~result.ok /\ result.error.message = <<quote.error>>
           ELSE result = Ok([to |-> quote.tx.to, data |-> quote.tx.data])

\* C4 amended: generateSwapCallData fails with the remote message if the response has
\* an error field at all, the empty string included, and returns the to and data of the
\* tx field exactly when the response has no error field.
C4_ErrorFieldPresentFails ==
    (lastQuote # None /\ "data" \in DOMAIN lastQuote[1].http) =>
        LET quote == lastQuote[1].http.data
            result == lastQuote[1].result
        IN IF "error" \in DOMAIN quote
           THEN /\ ~result.ok
                /\ result.error.message = <<quote.error>>
                /\ "value" \notin DOMAIN result
           ELSE result = Ok([to |-> quote.tx.to, data |-> quote.tx.data])

C4_Witness ==
    /\ lastQuote # None
    /\ "data" \in DOMAIN lastQuote[1].http
    /\ "error" \in DOMAIN lastQuote[1].http.data
    /\ lastQuote[1].http.data.error = ""
    /\ ~lastQuote[1].result.ok
    /\ pc = "failed"

\* C5 as stated: every error of a run, the missing-configuration error included, is
\* logged exactly once by the handler and re-thrown unmodified.
C5_Original ==
    raised # None =>
        /\ pc = "failed"
        /\ thrown = raised
        /\ Len(ErrorEntries) = 1
        /\ ErrorEntries[1].error = raised[1]

C5_HandledState ==
    raised # None =>
        /\ pc = "failed"
        /\ thrown = raised
        /\ inflight = {}
        /\ IF raised[1] = MissingConfigError
           THEN log = <<>>
           ELSE /\ Len(ErrorEntries) = 1
                /\ ErrorEntries[1].error = raised[1]
                /\ log[Len(log)] = ErrorEntries[1]

C5_NothingAfterError ==
    raised # None => UNCHANGED <<calls, inflight, log, raised, thrown, pc>>

\* C5 amended: every error raised inside the try block is logged exactly once, last, and
\* re-thrown unmodified; the missing-configuration error, thrown before the try block,
\* rejects the run unmodified and is not logged; after the first error no call is
\* issued, nothing is logged and the run stays failed.
C5_ErrorsLoggedOnceInsideTry == [](C5_HandledState) /\ [][C5_NothingAfterError]_vars

C5_Witness ==
    /\ raised # None
    /\ raised[1] = MismatchError
    /\ Len(ErrorEntries) = 1

\* C6: the message given to getQuote holds exactly the two actions approve, swap in that
\* order, and a swap update whose fresh quote names the initial contract returns the
\* fresh quote's calldata.
C6_TwoActionsAndFreshCalldata ==
    /\ Issued("getQuote") <=> crossChainMessage # None
    /\ crossChainMessage # None =>
          LET actions == crossChainMessage[1].actions IN
          /\ Len(actions) = 2
          /\ actions[1].target = outputToken
          /\ WellFormedApprove(actions[1].callData)
          /\ actions[2].target = initialQuote[1].to
          /\ actions[2].callData = initialQuote[1].data
    /\ (lastUpdate # None /\ lastUpdate[1].action = 2) =>
          LET u == lastUpdate[1] IN
          ("data" \in DOMAIN u.http /\ "error" \notin DOMAIN u.http.data
              /\ u.http.data.tx.to = initialQuote[1].to) =>
                 u.result = Ok([callData |-> u.http.data.tx.data])

C6_Witness ==
    /\ lastUpdate # None
    /\ lastUpdate[1].action = 2
    /\ lastUpdate[1].result.ok
    /\ lastUpdate[1].result.value.callData # initialQuote[1].data
    /\ pc = "executeQuote"

CallOrder == <<"getBalance", "generateSwapCallData", "getQuote", "executeQuote">>

IsAwaitedBodyCall(c) == IsBody(c) /\ c.op \in {CallOrder[i] : i \in 1..Len(CallOrder)}

\* C7: executeSwap's body issues getBalance, the initial swap quote, getQuote and
\* executeQuote in that order, each only once the one before has returned successfully,
\* so at most one of them is in flight; progress events are handled only after
\* executeQuote was called.
C7_LinearOrder ==
    LET issued == Ops(SelectSeq(calls, IsAwaitedBodyCall)) IN
    /\ IsPrefix(issued, CallOrder)
    /\ IsPrefix(returned, issued)
    /\ Len(issued) <= Len(returned) + 1
    /\ Cardinality({c \in inflight : IsBody(c)}) <= 1
    /\ Len(issued) = Len(returned) + 1 =>
          \/ {c \in inflight : IsBody(c)} = {Call(issued[Len(issued)], "body")}
          \/ pc = "failed"
    /\ nEvents > 0 => Issued("executeQuote")

C7_Witness ==
    /\ pc = "done"
    /\ nEvents > 0
    /\ nUpdates > 0
    /\ returned = CallOrder

\* C8: the calldata generateApproveCallData gives for (spender, amount) is the approve
\* selector followed by the two argument words, and decodes to (spender, amount).
C8_ApproveRoundTrip ==
    fnOut # None =>
        /\ WellFormedApprove(fnOut[1])
        /\ DecodeApprove(fnOut[1]) = <<fnArgs[1], fnArgs[2]>>

C8_Witness ==
    /\ fnOut # None
    /\ fnArgs[2] > 256
    /\ fnArgs[1] = AddrA

ReportedEvent(e) == e.status = "txSuccess" /\ e.step \in Steps

C9_OutputOfEvent ==
    /\ \A p, q \in handled : p[1] = q[1] => p[2] = q[2]
    /\ \A p \in handled :
          /\ p[2] # <<>> <=> ReportedEvent(p[1])
          /\ \A i \in 1..Len(p[2]) : p[2][i].level = "success"
          /\ (ReportedEvent(p[1]) /\ p[1].step = "fill") =>
                p[2][Len(p[2])].msg =
                    <<IF p[1].actionSuccess THEN "Swap completed successfully"
                                            ELSE "Swap failed">>
    /\ lastEvent # None => <<lastEvent[1], lastOut>> \in handled

C9_SilentStep ==
    (nEvents' # nEvents /\ ~ReportedEvent(lastEvent'[1])) =>
        UNCHANGED <<env, pc, calls, inflight, returned, log, balance, initialQuote,
                    swapContractAddress, initialCalldata, crossChainMessage, raised,
                    thrown, updReq, lastUpdate, nUpdates, lastQuote>>

C9_ReportingStep ==
    nEvents' # nEvents =>
        /\ log' = log \o lastOut'
        /\ UNCHANGED <<pc, calls, inflight, crossChainMessage, raised, thrown>>

\* C9: what onProgress logs for an event is the same whenever that event is handled; it
\* logs exactly for the txSuccess events of approve, deposit and fill, for fill ending
\* with "Swap completed successfully" if actionSuccess and "Swap failed" if not, and
\* handling any other event changes nothing.
C9_ProgressStateless ==
    [](C9_OutputOfEvent) /\ [][C9_SilentStep /\ C9_ReportingStep]_vars

C9_Witness ==
    /\ nEvents = 2
    /\ Cardinality(handled) = 1
    /\ lastEvent[1].step = "fill"
    /\ lastEvent[1].status = "txSuccess"
    /\ ~lastEvent[1].actionSuccess

C10_SpenderIsSwapTarget ==
    crossChainMessage # None =>
        LET actions == crossChainMessage[1].actions IN
        /\ DecodeApprove(actions[1].callData) = <<actions[2].target, inputAmount>>
        /\ actions[2].target = initialQuote[1].to
        /\ crossChainMessage[1].fallbackRecipient = UserAddress
        /\ (lastUpdate # None /\ lastUpdate[1].action = 1) =>
              /\ lastUpdate[1].result.ok
              /\ WellFormedApprove(lastUpdate[1].result.value.callData)
              /\ DecodeApprove(lastUpdate[1].result.value.callData)
                   = <<actions[2].target, lastUpdate[1].amount>>

C10_MessageFixed ==
    crossChainMessage # None => crossChainMessage' = crossChainMessage

\* C10: once the message is built, and after any updates, the spender in the approve
\* action's calldata, static or updated (the updated amount being the update's
\* argument), is the swap action's target, which is the contract of the initial quote;
\* no step changes the message's actions, targets or fallback recipient.
C10_ApproveSpenderInvariant ==
    [](C10_SpenderIsSwapTarget) /\ [][C10_MessageFixed]_vars

C10_Witness ==
    /\ nUpdates = 2
    /\ lastUpdate[1].action = 1
    /\ lastUpdate[1].amount # inputAmount
    /\ \E i \in 1..Len(calls) : calls[i].by = "update"
    /\ pc = "executeQuote"

====
